---- MODULE Spec2Model ----
(***************************************************************************)
(* Model of the payments engine's ledger (src/src/ledger.rs) as driven by  *)
(* the record loop of src/src/main.rs.                                     *)
(*                                                                         *)
(* The two HashMaps of Ledger are functions whose DOMAIN is the set of     *)
(* keys present.  Decimal amounts are integers (a count of the smallest    *)
(* unit); Option<Decimal> is a sequence of length 0 (None) or 1 (Some).    *)
(* Every Err(String) of the code is named after the error class of the     *)
(* message it carries.  Decimal arithmetic panics only beyond 96 bits,     *)
(* far outside the balances MaxRecords records can build.                  *)
(***************************************************************************)
EXTENDS Integers, Sequences, FiniteSets, TLC

\* ------------------------------------------------------------------ bounds
\* The number of records the loop of main reads from the input.
MaxRecords == 5
\* The same, in the runs that keep the history of Withdrawal identifiers.
MaxTrackedRecords == 4

\* u16 client ids and u32 transaction ids: two of each.
Clients == {1, 2}
TxIds == {1, 2}
\* Decimal is signed and the decoder accepts a negative amount.
Amounts == {-1, 1, 2}
\* Option<Decimal>: Some(a) is <<a>>, None is << >>.
OptAmounts == {<< >>} \cup {<<a>> : a \in Amounts}
\* The same, in the order the actions try them.
AmountChoices == <<<<1>>, <<2>>, <<-1>>, << >> >>

VARIABLES
    transactions,        \* Ledger.transactions    : tx id -> TransactionInformation
    client_accounts,     \* Ledger.client_accounts : client id -> AccountStatus
    last,                \* the record handle_new_transaction was last called with
    result,              \* what that call returned
    prev_transactions,   \* Ledger.transactions before that call
    prev_accounts,       \* Ledger.client_accounts before that call
    deposited,           \* history: tx ids of the Deposits that returned Ok
    prev_deposited,      \* history: deposited before the last call
    depositors,          \* history: clients of the Deposits that returned Ok
    tracking,            \* whether this run keeps the history withdrawn
    withdrawn,           \* history: tx ids the Withdrawal records carried
    scenario,            \* history: how far the last records follow Deposit(c,t,a),
                         \* Dispute(c,t), Resolve(c,t) or ChargeBack(c,t), c new
    n                    \* the number of records handled so far

vars == <<transactions, client_accounts, last, result, prev_transactions,
          prev_accounts, deposited, prev_deposited, depositors, tracking,
          withdrawn, scenario, n>>

\* ------------------------------------------------------------------- types
TransactionType == {"Deposit", "Withdrawal", "Dispute", "Resolve", "ChargeBack"}

Transaction == [transaction_type : TransactionType, client : Clients,
                tx : TxIds, amount : OptAmounts]

Errors == {"MissingAmount", "DuplicateTransaction", "UnknownTransaction",
           "ClientMismatch", "InvalidTransition", "AccountLocked",
           "InsufficientFunds"}

\* --------------------------------------------------- state transition rules
CheckStateTransitionRedispute(self, previous_state) ==
    IF \/ self = "Dispute" /\ previous_state \in {"Deposit", "Resolve"}
       \/ self = "ChargeBack" /\ previous_state = "Dispute"
       \/ self = "Resolve" /\ previous_state = "Dispute"
    THEN "Ok" ELSE "InvalidTransition"

CheckStateTransition(self, previous_state) ==
    IF \/ self = "Dispute" /\ previous_state = "Deposit"
       \/ self = "ChargeBack" /\ previous_state = "Dispute"
       \/ self = "Resolve" /\ previous_state = "Dispute"
    THEN "Ok" ELSE "InvalidTransition"

\* ------------------------------------------------------- transaction store
HandleTransactionTransitionStateFirst(txs, tx_id, client_id, new_state) ==
    IF tx_id \notin DOMAIN txs
    THEN [res |-> "UnknownTransaction", transactions |-> txs]
    ELSE IF txs[tx_id].client # client_id
    THEN [res |-> "ClientMismatch", transactions |-> txs]
    ELSE [res |-> CheckStateTransition(new_state, txs[tx_id].state),
          transactions |-> [txs EXCEPT ![tx_id].state = new_state]]

HandleTransactionTransitionAnyClient(txs, tx_id, client_id, new_state) ==
    IF tx_id \notin DOMAIN txs
    THEN [res |-> "UnknownTransaction", transactions |-> txs]
    ELSE IF CheckStateTransition(new_state, txs[tx_id].state) # "Ok"
    THEN [res |-> "InvalidTransition", transactions |-> txs]
    ELSE [res |-> "Ok",
          transactions |-> [txs EXCEPT ![tx_id].state = new_state]]

HandleTransactionTransition(txs, tx_id, client_id, new_state) ==
    IF tx_id \notin DOMAIN txs
    THEN [res |-> "UnknownTransaction", transactions |-> txs]
    ELSE IF txs[tx_id].client # client_id
    THEN [res |-> "ClientMismatch", transactions |-> txs]
    ELSE IF CheckStateTransition(new_state, txs[tx_id].state) # "Ok"
    THEN [res |-> "InvalidTransition", transactions |-> txs]
    ELSE [res |-> "Ok",
          transactions |-> [txs EXCEPT ![tx_id].state = new_state]]

CheckAccountIsLockedNever(accts, client_id) == "Ok"

CheckAccountIsLocked(accts, client_id) ==
    IF client_id \in DOMAIN accts /\ accts[client_id].locked
    THEN "AccountLocked" ELSE "Ok"

StoreNewTransaction(txs, tx_id, amount, client_id) ==
    IF tx_id \in DOMAIN txs
    THEN [res |-> "DuplicateTransaction", transactions |-> txs]
    ELSE [res |-> "Ok",
          transactions |->
              [k \in DOMAIN txs \cup {tx_id} |->
                  IF k = tx_id
                  THEN [client |-> client_id, amount |-> amount, state |-> "Deposit"]
                  ELSE txs[k]]]

RemoveTransaction(txs, tx_id) ==
    [k \in DOMAIN txs \ {tx_id} |-> txs[k]]

\* ----------------------------------------------------------- account store
InsertAccount(accts, client_id, account) ==
    [k \in DOMAIN accts \cup {client_id} |->
        IF k = client_id THEN account ELSE accts[k]]

NewAccount(amount) ==
    [available |-> amount, held |-> 0, total |-> amount, locked |-> FALSE]

DepositCreditAvailableOnly(account, amount) ==
    [account EXCEPT !.available = @ + amount]

DepositCredit(account, amount) ==
    [account EXCEPT !.available = @ + amount, !.total = @ + amount]

WithdrawalDebit(account, amount) ==
    [account EXCEPT !.available = @ - amount, !.total = @ - amount]

DisputeHoldUnguarded(account, amount) ==
    [account EXCEPT !.held = @ + amount, !.available = @ - amount]

DisputeHold(account, amount) ==
    IF account.available >= amount
    THEN [account EXCEPT !.held = @ + amount, !.available = @ - amount]
    ELSE account

ResolveReleaseUnguarded(account, amount) ==
    [account EXCEPT !.held = @ - amount, !.available = @ + amount]

ResolveReleaseKeepsHeld(account, amount) ==
    IF account.held >= amount
    THEN [account EXCEPT !.available = @ + amount]
    ELSE account

ResolveRelease(account, amount) ==
    IF account.held >= amount
    THEN [account EXCEPT !.held = @ - amount, !.available = @ + amount]
    ELSE account

ChargeBackAccountFromAvailable(account, amount) ==
    [(IF account.held >= amount
      THEN [account EXCEPT !.available = @ - amount, !.total = @ - amount]
      ELSE account)
     EXCEPT !.locked = TRUE]

ChargeBackAccountLockIfMoved(account, amount) ==
    IF account.held >= amount
    THEN [account EXCEPT !.held = @ - amount, !.total = @ - amount,
                         !.locked = TRUE]
    ELSE account

ChargeBackAccount(account, amount) ==
    [(IF account.held >= amount
      THEN [account EXCEPT !.held = @ - amount, !.total = @ - amount]
      ELSE account)
     EXCEPT !.locked = TRUE]

\* ----------------------------------------------------------- ledger engine
Out(res, txs, accts) ==
    [res |-> res, transactions |-> txs, client_accounts |-> accts]

DepositArmCheckFirst(txs, accts, t) ==
    IF Len(t.amount) = 0 THEN Out("MissingAmount", txs, accts)
    ELSE IF t.client \in DOMAIN accts /\ accts[t.client].locked
    THEN Out("AccountLocked", txs, accts)
    ELSE LET amount == t.amount[1]
             stored == StoreNewTransaction(txs, t.tx, amount, t.client)
         IN  IF stored.res # "Ok" THEN Out(stored.res, txs, accts)
             ELSE Out("Ok", stored.transactions,
                      IF t.client \in DOMAIN accts
                      THEN [accts EXCEPT ![t.client] = DepositCredit(@, amount)]
                      ELSE InsertAccount(accts, t.client, NewAccount(amount)))

DepositArmReinsert(txs, accts, t) ==
    IF Len(t.amount) = 0 THEN Out("MissingAmount", txs, accts)
    ELSE LET amount == t.amount[1]
             account == IF t.client \in DOMAIN accts
                        THEN [DepositCredit(accts[t.client], amount)
                                 EXCEPT !.locked = FALSE]
                        ELSE NewAccount(amount)
             stored == StoreNewTransaction(txs, t.tx, amount, t.client)
         IN  Out(stored.res, stored.transactions,
                 InsertAccount(accts, t.client, account))

DepositArm(txs, accts, t) ==
    IF Len(t.amount) = 0 THEN Out("MissingAmount", txs, accts)
    ELSE IF t.client \in DOMAIN accts /\ accts[t.client].locked
    THEN Out("AccountLocked", txs, accts)
    ELSE LET amount == t.amount[1]
             accts2 == IF t.client \in DOMAIN accts
                       THEN [accts EXCEPT ![t.client] = DepositCredit(@, amount)]
                       ELSE InsertAccount(accts, t.client, NewAccount(amount))
             stored == StoreNewTransaction(txs, t.tx, amount, t.client)
         IN  Out(stored.res, stored.transactions, accts2)

WithdrawalArmRecords(txs, accts, t) ==
    IF Len(t.amount) = 0 THEN Out("MissingAmount", txs, accts)
    ELSE IF t.tx \in DOMAIN txs THEN Out("DuplicateTransaction", txs, accts)
    ELSE IF t.client \notin DOMAIN accts THEN Out("Ok", txs, accts)
    ELSE IF accts[t.client].locked THEN Out("AccountLocked", txs, accts)
    ELSE IF accts[t.client].available < t.amount[1]
    THEN Out("InsufficientFunds", txs, accts)
    ELSE Out("Ok",
             [k \in DOMAIN txs \cup {t.tx} |->
                 IF k = t.tx
                 THEN [client |-> t.client, amount |-> t.amount[1],
                       state |-> "Withdrawal"]
                 ELSE txs[k]],
             [accts EXCEPT ![t.client] = WithdrawalDebit(@, t.amount[1])])

WithdrawalArmNoAccountError(txs, accts, t) ==
    IF Len(t.amount) = 0 THEN Out("MissingAmount", txs, accts)
    ELSE IF t.tx \in DOMAIN txs THEN Out("DuplicateTransaction", txs, accts)
    ELSE IF t.client \notin DOMAIN accts THEN Out("InsufficientFunds", txs, accts)
    ELSE IF accts[t.client].locked THEN Out("AccountLocked", txs, accts)
    ELSE IF accts[t.client].available < t.amount[1]
    THEN Out("InsufficientFunds", txs, accts)
    ELSE Out("Ok", txs, [accts EXCEPT ![t.client] = WithdrawalDebit(@, t.amount[1])])

WithdrawalArmDebitFirst(txs, accts, t) ==
    IF Len(t.amount) = 0 THEN Out("MissingAmount", txs, accts)
    ELSE IF t.tx \in DOMAIN txs THEN Out("DuplicateTransaction", txs, accts)
    ELSE IF t.client \notin DOMAIN accts THEN Out("Ok", txs, accts)
    ELSE IF accts[t.client].locked THEN Out("AccountLocked", txs, accts)
    ELSE LET debited == [accts EXCEPT ![t.client] = WithdrawalDebit(@, t.amount[1])]
         IN  IF debited[t.client].available < 0
             THEN Out("InsufficientFunds", txs, debited)
             ELSE Out("Ok", txs, debited)

WithdrawalArm(txs, accts, t) ==
    IF Len(t.amount) = 0 THEN Out("MissingAmount", txs, accts)
    ELSE IF t.tx \in DOMAIN txs THEN Out("DuplicateTransaction", txs, accts)
    ELSE IF t.client \notin DOMAIN accts THEN Out("Ok", txs, accts)
    ELSE IF accts[t.client].locked THEN Out("AccountLocked", txs, accts)
    ELSE IF accts[t.client].available < t.amount[1]
    THEN Out("InsufficientFunds", txs, accts)
    ELSE Out("Ok", txs, [accts EXCEPT ![t.client] = WithdrawalDebit(@, t.amount[1])])

DisputeArm(txs, accts, t) ==
    IF CheckAccountIsLocked(accts, t.client) # "Ok"
    THEN Out("AccountLocked", txs, accts)
    ELSE LET tr == HandleTransactionTransition(txs, t.tx, t.client, t.transaction_type)
         IN  IF tr.res # "Ok" THEN Out(tr.res, tr.transactions, accts)
             ELSE LET amount == tr.transactions[t.tx].amount
                  IN  Out("Ok", tr.transactions,
                          IF t.client \in DOMAIN accts
                          THEN [accts EXCEPT ![t.client] = DisputeHold(@, amount)]
                          ELSE accts)

ResolveArm(txs, accts, t) ==
    IF CheckAccountIsLocked(accts, t.client) # "Ok"
    THEN Out("AccountLocked", txs, accts)
    ELSE LET tr == HandleTransactionTransition(txs, t.tx, t.client, t.transaction_type)
         IN  IF tr.res # "Ok" THEN Out(tr.res, tr.transactions, accts)
             ELSE LET amount == tr.transactions[t.tx].amount
                  IN  Out("Ok", tr.transactions,
                          IF t.client \in DOMAIN accts
                          THEN [accts EXCEPT ![t.client] = ResolveRelease(@, amount)]
                          ELSE accts)

ChargeBackArmKeepsTransaction(txs, accts, t) ==
    IF CheckAccountIsLocked(accts, t.client) # "Ok"
    THEN Out("AccountLocked", txs, accts)
    ELSE LET tr == HandleTransactionTransition(txs, t.tx, t.client, t.transaction_type)
         IN  IF tr.res # "Ok" THEN Out(tr.res, tr.transactions, accts)
             ELSE LET amount == tr.transactions[t.tx].amount
                  IN  Out("Ok", tr.transactions,
                          IF t.client \in DOMAIN accts
                          THEN [accts EXCEPT ![t.client] = ChargeBackAccount(@, amount)]
                          ELSE accts)

ChargeBackArm(txs, accts, t) ==
    IF CheckAccountIsLocked(accts, t.client) # "Ok"
    THEN Out("AccountLocked", txs, accts)
    ELSE LET tr == HandleTransactionTransition(txs, t.tx, t.client, t.transaction_type)
         IN  IF tr.res # "Ok" THEN Out(tr.res, tr.transactions, accts)
             ELSE LET amount == tr.transactions[t.tx].amount
                  IN  Out("Ok", RemoveTransaction(tr.transactions, t.tx),
                          IF t.client \in DOMAIN accts
                          THEN [accts EXCEPT ![t.client] = ChargeBackAccount(@, amount)]
                          ELSE accts)

HandleNewTransaction(txs, accts, t) ==
    CASE t.transaction_type = "Deposit"    -> DepositArm(txs, accts, t)
      [] t.transaction_type = "Withdrawal" -> WithdrawalArm(txs, accts, t)
      [] t.transaction_type = "Dispute"    -> DisputeArm(txs, accts, t)
      [] t.transaction_type = "Resolve"    -> ResolveArm(txs, accts, t)
      [] t.transaction_type = "ChargeBack" -> ChargeBackArm(txs, accts, t)

\* ------------------------------------------------------------- record loop
NoRecord == [transaction_type |-> "None", client |-> 0, tx |-> 0, amount |-> << >>]

\* No record sequence under way.
NoScenario == [stage |-> "None", client |-> 0, tx |-> 0, amount |-> 0, fresh |-> FALSE]

\* The sequence the records follow once t is handled in the ledger (txs, accts):
\* a Deposit carrying an amount from a client without an account starts one;
\* the Dispute, and then the Resolve or ChargeBack, of the same client and
\* identifier continue it; any other record ends it.
ScenarioAfter(s, txs, accts, t) ==
    IF /\ t.transaction_type = "Deposit" /\ Len(t.amount) = 1
       /\ t.client \notin DOMAIN accts
    THEN [stage |-> "Deposit", client |-> t.client, tx |-> t.tx,
          amount |-> t.amount[1], fresh |-> t.tx \notin DOMAIN txs]
    ELSE IF /\ t.client = s.client /\ t.tx = s.tx
            /\ \/ s.stage = "Deposit" /\ t.transaction_type = "Dispute"
               \/ s.stage = "Dispute" /\ t.transaction_type \in {"Resolve", "ChargeBack"}
    THEN [s EXCEPT !.stage = t.transaction_type]
    ELSE NoScenario

InitLedger ==
    /\ transactions = << >>
    /\ client_accounts = << >>
    /\ last = NoRecord
    /\ result = "None"
    /\ prev_transactions = << >>
    /\ prev_accounts = << >>
    /\ deposited = {}
    /\ prev_deposited = {}
    /\ depositors = {}
    /\ withdrawn = {}
    /\ scenario = NoScenario
    /\ n = 0

Init == InitLedger /\ tracking = FALSE

InitTracked == InitLedger /\ tracking = TRUE

RecordLimit == IF tracking THEN MaxTrackedRecords ELSE MaxRecords

\* One iteration of main's loop over a decoded record.
Apply(t) ==
    LET out == HandleNewTransaction(transactions, client_accounts, t)
        ok_deposit == t.transaction_type = "Deposit" /\ out.res = "Ok"
    IN  /\ n' = n + 1
        /\ transactions' = out.transactions
        /\ client_accounts' = out.client_accounts
        /\ last' = t
        /\ result' = out.res
        /\ prev_transactions' = transactions
        /\ prev_accounts' = client_accounts
        /\ prev_deposited' = deposited
        /\ deposited' = IF ok_deposit THEN deposited \cup {t.tx} ELSE deposited
        /\ depositors' = IF ok_deposit THEN depositors \cup {t.client} ELSE depositors
        /\ tracking' = tracking
        /\ withdrawn' = IF tracking /\ t.transaction_type = "Withdrawal"
                        THEN withdrawn \cup {t.tx} ELSE withdrawn
        /\ scenario' = ScenarioAfter(scenario, transactions, client_accounts, t)

Deposit ==
    \E c \in Clients, x \in TxIds, i \in DOMAIN AmountChoices :
        /\ n < RecordLimit
        /\ Apply([transaction_type |-> "Deposit", client |-> c, tx |-> x,
                  amount |-> AmountChoices[i]])

Withdrawal ==
    \E c \in Clients, x \in TxIds, i \in DOMAIN AmountChoices :
        /\ n < RecordLimit
        /\ Apply([transaction_type |-> "Withdrawal", client |-> c, tx |-> x,
                  amount |-> AmountChoices[i]])

\* The last three arms never read transaction.amount.
Dispute ==
    \E c \in Clients, x \in TxIds :
        /\ n < RecordLimit
        /\ Apply([transaction_type |-> "Dispute", client |-> c, tx |-> x, amount |-> << >>])

Resolve ==
    \E c \in Clients, x \in TxIds :
        /\ n < RecordLimit
        /\ Apply([transaction_type |-> "Resolve", client |-> c, tx |-> x, amount |-> << >>])

ChargeBack ==
    \E c \in Clients, x \in TxIds :
        /\ n < RecordLimit
        /\ Apply([transaction_type |-> "ChargeBack", client |-> c, tx |-> x, amount |-> << >>])

Next == Deposit \/ Withdrawal \/ Dispute \/ Resolve \/ ChargeBack

Spec == Init /\ [][Next]_vars

\* The same loop over an input whose amounts are all >= 0.
NonNegChoices == <<<<1>>, <<2>>, <<0>>, << >> >>

DepositNonNeg ==
    \E c \in Clients, x \in TxIds, i \in DOMAIN NonNegChoices :
        /\ n < RecordLimit
        /\ Apply([transaction_type |-> "Deposit", client |-> c, tx |-> x,
                  amount |-> NonNegChoices[i]])

WithdrawalNonNeg ==
    \E c \in Clients, x \in TxIds, i \in DOMAIN NonNegChoices :
        /\ n < RecordLimit
        /\ Apply([transaction_type |-> "Withdrawal", client |-> c, tx |-> x,
                  amount |-> NonNegChoices[i]])

NextNonNeg == DepositNonNeg \/ WithdrawalNonNeg \/ Dispute \/ Resolve \/ ChargeBack

SpecNonNeg == Init /\ [][NextNonNeg]_vars

\* The same loop over a longer input that names one client and carries
\* positive amounts.
MaxDeepRecords == 7
DeepClients == {1}
DeepChoices == <<<<1>>, <<2>>>>

DepositDeep ==
    \E c \in DeepClients, x \in TxIds, i \in DOMAIN DeepChoices :
        /\ n < MaxDeepRecords
        /\ Apply([transaction_type |-> "Deposit", client |-> c, tx |-> x,
                  amount |-> DeepChoices[i]])

WithdrawalDeep ==
    \E c \in DeepClients, x \in TxIds, i \in DOMAIN DeepChoices :
        /\ n < MaxDeepRecords
        /\ Apply([transaction_type |-> "Withdrawal", client |-> c, tx |-> x,
                  amount |-> DeepChoices[i]])

DisputeDeep ==
    \E c \in DeepClients, x \in TxIds :
        /\ n < MaxDeepRecords
        /\ Apply([transaction_type |-> "Dispute", client |-> c, tx |-> x,
                  amount |-> << >>])

ResolveDeep ==
    \E c \in DeepClients, x \in TxIds :
        /\ n < MaxDeepRecords
        /\ Apply([transaction_type |-> "Resolve", client |-> c, tx |-> x,
                  amount |-> << >>])

ChargeBackDeep ==
    \E c \in DeepClients, x \in TxIds :
        /\ n < MaxDeepRecords
        /\ Apply([transaction_type |-> "ChargeBack", client |-> c, tx |-> x,
                  amount |-> << >>])

NextDeep == DepositDeep \/ WithdrawalDeep \/ DisputeDeep \/ ResolveDeep \/ ChargeBackDeep

SpecDeep == Init /\ [][NextDeep]_vars

\* The loop of Spec, keeping the history of Withdrawal identifiers.
SpecTracked == InitTracked /\ [][Next]_vars

\* ============================================================== properties
\* The record last handled, and the stores before it.
LastIs(kind) == last.transaction_type = kind
HasAmount == Len(last.amount) = 1
Rejected == result \in Errors
StoresUnchanged ==
    /\ transactions = prev_transactions
    /\ client_accounts = prev_accounts
HadAccount == last.client \in DOMAIN prev_accounts
WasLocked == HadAccount /\ prev_accounts[last.client].locked
WasStored == last.tx \in DOMAIN prev_transactions
WasOwned == WasStored /\ prev_transactions[last.tx].client = last.client
Transitions == {"Dispute", "Resolve", "ChargeBack"}

\* ----------------------------------------------------------------- C1
\* C1: in every reachable state, after any sequence of records (those that
\* return an error included), every account has total = available + held.
C1_TotalIsAvailablePlusHeld ==
    \A c \in DOMAIN client_accounts :
        client_accounts[c].total
            = client_accounts[c].available + client_accounts[c].held

\* A duplicate-identifier Deposit has just credited an account that holds
\* disputed funds.
C1_Witness ==
    /\ LastIs("Deposit") /\ result = "DuplicateTransaction" /\ HadAccount
    /\ client_accounts[last.client] # prev_accounts[last.client]
    /\ client_accounts[last.client].held > 0

\* ----------------------------------------------------------------- C2
\* C2 as stated: on an existing, unlocked account with available >= 0, a
\* Withdrawal of more than available returns InsufficientFunds and changes
\* nothing of the account; one of at most available returns Ok and takes
\* exactly amount from available and total, leaving available >= 0.
C2_WithdrawalCase ==
    /\ LastIs("Withdrawal") /\ HasAmount
    /\ HadAccount /\ ~WasLocked
    /\ prev_accounts[last.client].available >= 0

C2_WithdrawalOutcome ==
    LET before == prev_accounts[last.client]
        after == client_accounts[last.client]
        amount == last.amount[1]
    IN  IF amount > before.available
        THEN result = "InsufficientFunds" /\ after = before
        ELSE /\ result = "Ok"
             /\ after.available = before.available - amount
             /\ after.total = before.total - amount
             /\ after.available >= 0

C2_Original == C2_WithdrawalCase => C2_WithdrawalOutcome

\* C2 amended: the same, for a Withdrawal whose identifier is not in the
\* Transaction Store; one whose identifier is stored returns
\* DuplicateTransaction and changes nothing.
C2_WithdrawalNeverOverdraws ==
    C2_WithdrawalCase =>
        IF WasStored
        THEN result = "DuplicateTransaction" /\ StoresUnchanged
        ELSE C2_WithdrawalOutcome

\* A Withdrawal of more than a non-negative available has been rejected.
C2_Witness ==
    /\ C2_WithdrawalCase /\ ~WasStored
    /\ last.amount[1] > prev_accounts[last.client].available
    /\ result = "InsufficientFunds"

\* ----------------------------------------------------------------- C3
\* C3: a stored transaction's state changes only Deposit -> Dispute by a
\* Dispute record, Dispute -> Resolve by a Resolve record, and Dispute ->
\* removed by a ChargeBack record, each naming that transaction; a Dispute,
\* Resolve or ChargeBack that reaches the transition rule with any other
\* (requested kind, current state) pair returns InvalidTransition and leaves
\* the store as it was.
C3_LegalEdges == {<<"Dispute", "Deposit">>, <<"Resolve", "Dispute">>,
                  <<"ChargeBack", "Dispute">>}

C3_OnlyLegalEdges ==
    /\ \A x \in DOMAIN prev_transactions :
          IF x \in DOMAIN transactions
          THEN \/ transactions[x].state = prev_transactions[x].state
               \/ /\ last.tx = x
                  /\ last.transaction_type = transactions[x].state
                  /\ last.transaction_type \in {"Dispute", "Resolve"}
                  /\ <<last.transaction_type, prev_transactions[x].state>>
                         \in C3_LegalEdges
          ELSE /\ last.tx = x /\ LastIs("ChargeBack")
               /\ prev_transactions[x].state = "Dispute"
    /\ (last.transaction_type \in Transitions /\ ~WasLocked /\ WasOwned) =>
          IF <<last.transaction_type, prev_transactions[last.tx].state>>
                 \in C3_LegalEdges
          THEN result = "Ok"
          ELSE result = "InvalidTransition" /\ StoresUnchanged

\* A resolved transaction has been disputed again and the Dispute rejected.
C3_Witness ==
    /\ LastIs("Dispute") /\ WasOwned
    /\ prev_transactions[last.tx].state = "Resolve"
    /\ result = "InvalidTransition"

\* ----------------------------------------------------------------- C4
\* C4 as stated, for the Deposits that reach the duplicate check (they carry
\* an amount and their client's account is not locked): once an identifier has
\* been used by a Deposit that returned Ok, a later Deposit carrying it is
\* rejected with DuplicateTransaction and the Transaction Store gets no new
\* entry.
C4_Original ==
    (LastIs("Deposit") /\ HasAmount /\ ~WasLocked /\ last.tx \in prev_deposited)
        => (result = "DuplicateTransaction" /\ transactions = prev_transactions)

\* ----------------------------------------------------------------- C5
\* C5 as stated: a Dispute, Resolve or ChargeBack naming an identifier that is
\* not stored returns UnknownTransaction, one naming an identifier stored for
\* another client returns ClientMismatch, and neither changes either store.
C5_Original ==
    (last.transaction_type \in Transitions /\ ~WasOwned) =>
        /\ result = (IF WasStored THEN "ClientMismatch" ELSE "UnknownTransaction")
        /\ StoresUnchanged

\* C5 amended: the same when the record's client has no locked account; when
\* that account is locked the record returns AccountLocked; in every case
\* neither store changes.
C5_UnknownOrForeignRejected ==
    (last.transaction_type \in Transitions /\ ~WasOwned) =>
        /\ result = (IF WasLocked THEN "AccountLocked"
                     ELSE IF WasStored THEN "ClientMismatch"
                     ELSE "UnknownTransaction")
        /\ StoresUnchanged

\* A client has named a transaction stored for the other client.
C5_Witness ==
    /\ last.transaction_type \in Transitions
    /\ WasStored /\ ~WasOwned /\ ~WasLocked
    /\ result = "ClientMismatch"

\* ----------------------------------------------------------------- C6
\* C6: a ChargeBack whose client is not locked and whose transaction is
\* stored, owned by the client and in state Dispute leaves the client's
\* account locked; when held < amount the balances are as before.
C6_ChargeBackCase ==
    /\ LastIs("ChargeBack") /\ ~WasLocked /\ WasOwned
    /\ prev_transactions[last.tx].state = "Dispute"

C6_ChargeBackAlwaysLocks ==
    C6_ChargeBackCase =>
        /\ last.client \in DOMAIN client_accounts
        /\ client_accounts[last.client].locked
        /\ (HadAccount /\ prev_accounts[last.client].held
                              < prev_transactions[last.tx].amount) =>
              client_accounts[last.client]
                  = [prev_accounts[last.client] EXCEPT !.locked = TRUE]

\* A ChargeBack has passed its preconditions with held < amount.
C6_Witness ==
    /\ C6_ChargeBackCase /\ result = "Ok"
    /\ prev_accounts[last.client].held < prev_transactions[last.tx].amount
    /\ client_accounts[last.client].locked

\* ----------------------------------------------------------------- C7
\* C7: no record unlocks an account or removes one: an account present before
\* a record is present after it, and locked after it if it was locked before.
C7_LockedMonotonic ==
    \A c \in DOMAIN prev_accounts :
        /\ c \in DOMAIN client_accounts
        /\ prev_accounts[c].locked => client_accounts[c].locked

\* A Deposit carrying an amount has been sent to a locked account.
C7_Witness ==
    /\ LastIs("Deposit") /\ HasAmount /\ WasLocked
    /\ client_accounts[last.client].locked

\* ----------------------------------------------------------------- C8
\* C8: once an account is locked, every record naming its client returns an
\* error, and no record changes its balances, nor changes or removes a stored
\* transaction its client owns.
C8_LockedIsFrozen ==
    \A c \in DOMAIN prev_accounts :
        prev_accounts[c].locked =>
            /\ (last.client = c => Rejected)
            /\ c \in DOMAIN client_accounts
            /\ client_accounts[c] = prev_accounts[c]
            /\ \A x \in DOMAIN prev_transactions :
                  prev_transactions[x].client = c =>
                      /\ x \in DOMAIN transactions
                      /\ transactions[x] = prev_transactions[x]

\* A locked client has disputed a deposit it still has in the store.
C8_Witness ==
    /\ LastIs("Dispute") /\ WasLocked /\ WasOwned
    /\ prev_transactions[last.tx].state = "Deposit"
    /\ result = "AccountLocked"

\* ----------------------------------------------------------------- C9
\* C9: a record that returns an error leaves both stores as they were, unless
\* it is a Deposit that returns DuplicateTransaction.
C9_ErrorsChangeNothing ==
    (Rejected /\ ~(LastIs("Deposit") /\ result = "DuplicateTransaction"))
        => StoresUnchanged

\* A Resolve of an undisputed deposit has been rejected.
C9_Witness ==
    /\ LastIs("Resolve") /\ WasOwned
    /\ prev_transactions[last.tx].state = "Deposit"
    /\ result = "InvalidTransition"

\* ---------------------------------------------------------------- C10
\* C10 as stated: every client in the Account Store has had a Deposit that
\* returned Ok, and no record that returns an error adds an account.
C10_Original ==
    /\ DOMAIN client_accounts \subseteq depositors
    /\ Rejected => DOMAIN client_accounts = DOMAIN prev_accounts

\* ---------------------------------------------------------------- C11
\* An account with these four fields.
AccountIs(c, available, held, total, locked) ==
    /\ c \in DOMAIN client_accounts
    /\ client_accounts[c] = [available |-> available, held |-> held,
                             total |-> total, locked |-> locked]

\* Each record of the sequence so far returned Ok (checked after each one).
ScenarioStepOk == scenario.stage # "None" => result = "Ok"

C11_ChargeBackSequence ==
    /\ ScenarioStepOk
    /\ scenario.stage = "ChargeBack" =>
          /\ AccountIs(scenario.client, 0, 0, 0, TRUE)
          /\ scenario.tx \notin DOMAIN transactions

\* A ChargeBack that passes its preconditions removes the transaction, and
\* with held >= amount takes amount from held and total and leaves available.
C11_ChargeBackEffect ==
    C6_ChargeBackCase =>
        /\ last.tx \notin DOMAIN transactions
        /\ (HadAccount /\ prev_accounts[last.client].held
                              >= prev_transactions[last.tx].amount) =>
              LET before == prev_accounts[last.client]
                  after == client_accounts[last.client]
                  amount == prev_transactions[last.tx].amount
              IN  /\ after.held = before.held - amount
                  /\ after.total = before.total - amount
                  /\ after.available = before.available

\* C11 as stated: for a client without an account and a >= 0, Deposit(c,t,a),
\* Dispute(c,t), ChargeBack(c,t) each return Ok and leave the account
\* {available=0, held=0, total=0, locked=true} and t out of the store; and
\* C11_ChargeBackEffect.
C11_Original ==
    /\ scenario.amount >= 0 => C11_ChargeBackSequence
    /\ C11_ChargeBackEffect

\* C11 amended: the same, for an identifier t that is not in the Transaction
\* Store when the Deposit arrives.
C11_DepositDisputeChargeBack ==
    /\ (scenario.amount >= 0 /\ scenario.fresh) => C11_ChargeBackSequence
    /\ C11_ChargeBackEffect

\* The three records have been handled for a new client and a new identifier.
C11_Witness ==
    /\ scenario.stage = "ChargeBack" /\ scenario.fresh /\ scenario.amount >= 0
    /\ result = "Ok" /\ AccountIs(scenario.client, 0, 0, 0, TRUE)

\* ---------------------------------------------------------------- C12
C12_ResolveSequence ==
    LET c == scenario.client
        a == scenario.amount
    IN  /\ ScenarioStepOk
        /\ scenario.stage = "Deposit" => AccountIs(c, a, 0, a, FALSE)
        /\ scenario.stage = "Dispute" => AccountIs(c, 0, a, a, FALSE)
        /\ scenario.stage = "Resolve" =>
              /\ AccountIs(c, a, 0, a, FALSE)
              /\ scenario.tx \in DOMAIN transactions
              /\ transactions[scenario.tx].state = "Resolve"

\* C12 as stated: for a client without an account and a >= 0, Deposit(c,t,a),
\* Dispute(c,t), Resolve(c,t) each return Ok; the account is {a, 0, a, false}
\* after the Deposit, {0, a, a, false} after the Dispute and {a, 0, a, false}
\* again after the Resolve, which leaves t in state Resolve.
C12_Original == scenario.amount >= 0 => C12_ResolveSequence

\* C12 amended: the same, for an identifier t that is not in the Transaction
\* Store when the Deposit arrives.
C12_DisputeResolveRoundTrip ==
    (scenario.amount >= 0 /\ scenario.fresh) => C12_ResolveSequence

\* The three records have been handled for a new client and a new identifier,
\* with a positive amount.
C12_Witness ==
    /\ scenario.stage = "Resolve" /\ scenario.fresh /\ scenario.amount > 0
    /\ result = "Ok"
    /\ AccountIs(scenario.client, scenario.amount, 0, scenario.amount, FALSE)

\* ---------------------------------------------------------------- C13
\* C13: a Deposit carrying an amount, for a client whose account is unlocked
\* or absent, under an identifier already stored returns DuplicateTransaction;
\* available and total have each grown by amount (or the account
\* {amount, 0, amount, false} has been created); the Transaction Store is as
\* it was.
C13_DuplicateDepositCase ==
    LastIs("Deposit") /\ HasAmount /\ ~WasLocked /\ WasStored

C13_DuplicateDepositCredits ==
    C13_DuplicateDepositCase =>
        /\ result = "DuplicateTransaction"
        /\ transactions = prev_transactions
        /\ last.client \in DOMAIN client_accounts
        /\ client_accounts[last.client] =
              IF HadAccount
              THEN [prev_accounts[last.client] EXCEPT
                       !.available = @ + last.amount[1],
                       !.total = @ + last.amount[1]]
              ELSE [available |-> last.amount[1], held |-> 0,
                    total |-> last.amount[1], locked |-> FALSE]

\* A rejected duplicate Deposit has created the account of a new client.
C13_Witness ==
    /\ C13_DuplicateDepositCase /\ ~HadAccount
    /\ result = "DuplicateTransaction"
    /\ last.client \in DOMAIN client_accounts

\* ---------------------------------------------------------------- C14
\* C14: a Dispute (Resolve) that passes its preconditions returns Ok and sets
\* the stored state to Dispute (Resolve); it moves amount from available to
\* held (from held to available) if available >= amount (held >= amount) and
\* otherwise leaves the balances alone; total and locked never change.
C14_TransitionCase(kind, from) ==
    /\ LastIs(kind) /\ ~WasLocked /\ WasOwned
    /\ prev_transactions[last.tx].state = from

C14_Committed(kind) ==
    /\ result = "Ok"
    /\ last.tx \in DOMAIN transactions
    /\ transactions[last.tx] = [prev_transactions[last.tx] EXCEPT !.state = kind]
    /\ HadAccount
    /\ client_accounts[last.client].total = prev_accounts[last.client].total
    /\ client_accounts[last.client].locked = prev_accounts[last.client].locked

C14_TransitionAlwaysCommits ==
    LET before == prev_accounts[last.client]
        after == client_accounts[last.client]
        amount == prev_transactions[last.tx].amount
    IN  /\ C14_TransitionCase("Dispute", "Deposit") =>
              /\ C14_Committed("Dispute")
              /\ after = IF before.available >= amount
                         THEN [before EXCEPT !.available = @ - amount,
                                             !.held = @ + amount]
                         ELSE before
        /\ C14_TransitionCase("Resolve", "Dispute") =>
              /\ C14_Committed("Resolve")
              /\ after = IF before.held >= amount
                         THEN [before EXCEPT !.held = @ - amount,
                                             !.available = @ + amount]
                         ELSE before

\* A Dispute has been committed although available < amount.
C14_Witness ==
    /\ C14_TransitionCase("Dispute", "Deposit") /\ result = "Ok"
    /\ prev_accounts[last.client].available < prev_transactions[last.tx].amount
    /\ transactions[last.tx].state = "Dispute"
    /\ client_accounts[last.client] = prev_accounts[last.client]

\* ---------------------------------------------------------------- C15
\* C15: a Withdrawal carrying an amount, whose identifier is not stored and
\* whose client has no account, returns Ok and changes neither store.
C15_NoAccountCase ==
    LastIs("Withdrawal") /\ HasAmount /\ ~WasStored /\ ~HadAccount

C15_WithdrawalWithoutAccountIsNoOp ==
    C15_NoAccountCase => (result = "Ok" /\ StoresUnchanged)

\* Such a Withdrawal has been handled by a ledger that holds another client's
\* account and deposit.
C15_Witness ==
    /\ C15_NoAccountCase /\ result = "Ok"
    /\ DOMAIN client_accounts # {} /\ DOMAIN transactions # {}
    /\ last.client \notin DOMAIN client_accounts

\* ---------------------------------------------------------------- C16
\* No Withdrawal touches the Transaction Store, and every stored transaction
\* was put there by a Deposit that returned Ok.
C16_NeverRecorded ==
    /\ LastIs("Withdrawal") => transactions = prev_transactions
    /\ DOMAIN transactions \subseteq deposited
    /\ \A x \in DOMAIN transactions \ DOMAIN prev_transactions :
          LastIs("Deposit") /\ last.tx = x /\ result = "Ok"

\* A Dispute, Resolve or ChargeBack naming an identifier that Withdrawals have
\* carried and no successful Deposit has.
C16_WithdrawnOnlyCase ==
    /\ last.transaction_type \in Transitions
    /\ last.tx \in withdrawn /\ last.tx \notin prev_deposited

\* C16 as stated: C16_NeverRecorded; a Dispute, Resolve or ChargeBack naming
\* an identifier only Withdrawals have used returns UnknownTransaction; and a
\* Withdrawal returns DuplicateTransaction exactly when its identifier is
\* stored.
C16_Original ==
    /\ C16_NeverRecorded
    /\ C16_WithdrawnOnlyCase => result = "UnknownTransaction"
    /\ LastIs("Withdrawal") => (result = "DuplicateTransaction" <=> WasStored)

\* C16 amended: C16_NeverRecorded; a Dispute, Resolve or ChargeBack naming an
\* identifier no successful Deposit has used (one only Withdrawals have used
\* among them) returns UnknownTransaction, or AccountLocked when its client's
\* account is locked; and a Withdrawal that carries an amount returns
\* DuplicateTransaction exactly when its identifier is stored (one without an
\* amount returns MissingAmount).
C16_WithdrawalsNeverRecorded ==
    /\ C16_NeverRecorded
    /\ (last.transaction_type \in Transitions /\ last.tx \notin prev_deposited) =>
          result = (IF WasLocked THEN "AccountLocked" ELSE "UnknownTransaction")
    /\ LastIs("Withdrawal") =>
          IF HasAmount THEN result = "DuplicateTransaction" <=> WasStored
          ELSE result = "MissingAmount"

\* A client with an unlocked account has disputed an identifier that only
\* Withdrawals have carried.
C16_Witness ==
    /\ C16_WithdrawnOnlyCase /\ LastIs("Dispute") /\ HadAccount /\ ~WasLocked
    /\ result = "UnknownTransaction"

\* ---------------------------------------------------------------- C17
\* C17: when every amount of the input is >= 0, every account has
\* available >= 0, held >= 0 and total >= 0 in every reachable state.
C17_BalancesNonNegative ==
    \A c \in DOMAIN client_accounts :
        /\ client_accounts[c].available >= 0
        /\ client_accounts[c].held >= 0
        /\ client_accounts[c].total >= 0

\* A Resolve has skipped its balance movement because held < amount.
C17_Witness ==
    /\ C14_TransitionCase("Resolve", "Dispute") /\ result = "Ok"
    /\ prev_accounts[last.client].held < prev_transactions[last.tx].amount
    /\ client_accounts[last.client] = prev_accounts[last.client]

\* ---------------------------------------------------------------- C18
\* The sum of the amounts of the transactions of ids that client c has in
\* state Dispute.
RECURSIVE SumDisputed(_, _)
SumDisputed(ids, c) ==
    IF ids = {} THEN 0
    ELSE LET x == CHOOSE y \in ids : TRUE
         IN  (IF transactions[x].client = c /\ transactions[x].state = "Dispute"
              THEN transactions[x].amount ELSE 0)
             + SumDisputed(ids \ {x}, c)

\* C18 as stated: with amounts >= 0, an account's held is at most the sum of
\* the amounts of its client's stored transactions in state Dispute (so it is
\* 0 when the client has none).
C18_Original ==
    \A c \in DOMAIN client_accounts :
        client_accounts[c].held <= SumDisputed(DOMAIN transactions, c)

\* ---------------------------------------------------------------- C19
\* C19: every stored transaction is in state Deposit, Dispute or Resolve and
\* its owner has an account; a record leaves the owner and amount of the
\* transactions it keeps, and a transaction it adds has the client and
\* amount of that record, a Deposit, and state Deposit.
C19_StoresConsistent ==
    \A x \in DOMAIN transactions :
        /\ transactions[x].state \in {"Deposit", "Dispute", "Resolve"}
        /\ transactions[x].client \in DOMAIN client_accounts
        /\ IF x \in DOMAIN prev_transactions
           THEN /\ transactions[x].client = prev_transactions[x].client
                /\ transactions[x].amount = prev_transactions[x].amount
           ELSE /\ LastIs("Deposit") /\ HasAmount /\ last.tx = x
                /\ transactions[x] = [client |-> last.client,
                                      amount |-> last.amount[1],
                                      state |-> "Deposit"]

\* A ChargeBack has removed its transaction and left the client's other
\* transaction in the store as it was.
C19_Witness ==
    /\ LastIs("ChargeBack") /\ result = "Ok"
    /\ WasStored /\ last.tx \notin DOMAIN transactions
    /\ \E x \in DOMAIN transactions :
          /\ transactions[x].client = last.client
          /\ transactions[x] = prev_transactions[x]

\* ---------------------------------------------------------------- C20
\* C20: a record naming client c changes no other client's account, and
\* neither changes nor removes a stored transaction of another client.
C20_ClientsIsolated ==
    /\ \A d \in DOMAIN prev_accounts :
          d # last.client =>
              d \in DOMAIN client_accounts /\ client_accounts[d] = prev_accounts[d]
    /\ \A x \in DOMAIN prev_transactions :
          prev_transactions[x].client # last.client =>
              x \in DOMAIN transactions /\ transactions[x] = prev_transactions[x]

\* A client's ChargeBack has succeeded while the other client has funds held
\* in a dispute.
C20_Witness ==
    /\ LastIs("ChargeBack") /\ result = "Ok"
    /\ \E d \in DOMAIN client_accounts :
          /\ d # last.client /\ client_accounts[d].held > 0
          /\ \E x \in DOMAIN transactions :
                transactions[x].client = d /\ transactions[x].state = "Dispute"

====
